---- MODULE Spec2Model ----
(***************************************************************************)
(* jenca-authentication: a storage service (src/storage/storage.py) and an *)
(* authentication service (src/authentication/authentication.py).  Each   *)
(* service owns a SQLAlchemy database with one table, User, keyed by       *)
(* email, and runs as a process of its own: a behaviour is a run of one of *)
(* the two services.  The storage service lists its table (GET /users), so *)
(* the model keeps that table as the sequence of its rows in insertion     *)
(* order; the authentication service never shows the order of its rows, so *)
(* its table is the bag of its rows.  The model also keeps the cookies of  *)
(* each client of the authentication service, the last request handled     *)
(* together with its response, and the create requests that are in flight  *)
(* between their existence check and their commit.                         *)
(***************************************************************************)
EXTENDS Integers, Sequences, FiniteSets, Bags, TLC

\* ------------------------------------------------------------------ bounds
NEmails == 2
NHashes == 2

Emails == 1..NEmails
\* password hashes as the storage service's callers supply them (opaque)
PasswordHashes == 1..NHashes
\* plaintext passwords as the authentication service's clients supply them
\* (non-empty: bcrypt refuses to hash the empty password)
Passwords == {1, 2}
\* the salts bcrypt may draw
Salts == {1, 2}
Clients == {"c1", "c2"}
\* the workers of a service that handle requests concurrently
Workers == {"w1", "w2"}

\* ------------------------------------------------------- requests.codes
OK == 200
CREATED == 201
BAD_REQUEST == 400
UNAUTHORIZED == 401
NOT_FOUND == 404
CONFLICT == 409
METHOD_NOT_ALLOWED == 405
UNSUPPORTED_MEDIA_TYPE == 415
INTERNAL_SERVER_ERROR == 500

ContentTypes == {"application/json", "text/html"}

\* JSON bodies of POST /users: any of the two properties may be missing
Bodies ==
    {[email |-> e, password_hash |-> h] : e \in Emails, h \in PasswordHashes}
    \cup {[email |-> e] : e \in Emails}
    \cup {[password_hash |-> h] : h \in PasswordHashes}
    \cup {<<>>}

\* form data of POST /login and POST /signup: both fields, or a form that
\* lacks them
Forms ==
    {[email |-> e, password |-> p] : e \in Emails, p \in Passwords}
    \cup {<<>>}

Programs == {"storage", "authentication"}

VARIABLES
    program,    \* which of the repository's two services this run is of
    stUsers,    \* storage service: rows of its User table, insertion order
    auUsers,    \* authentication service: the bag of rows of its User table
    session,    \* authentication service: each client's cookies
    resp,       \* the last request handled to completion, and its response
    inflight    \* per worker: a create request between check and commit

vars == <<program, stUsers, auUsers, session, resp, inflight>>

\* ------------------------------------------------------- the User table
Row(email, password_hash) == [email |-> email, password_hash |-> password_hash]

HasEmail(users, email) == \E i \in 1..Len(users) : users[i].email = email

RowsOf(users, email) == SelectSeq(users, LAMBDA r : r.email = email)

\* mutant: an insert into a table without the primary key
db_insert_no_pk(users, row) == [ok |-> TRUE, users |-> Append(users, row)]

\* db.session.add(user); db.session.commit() on a table whose email column
\* is the primary key: a second row for an email raises IntegrityError and
\* the transaction inserts nothing.
db_insert(users, row) ==
    IF HasEmail(users, row.email)
    THEN [ok |-> FALSE, users |-> users]
    ELSE [ok |-> TRUE, users |-> Append(users, row)]

\* mutant: DELETE without its WHERE clause
db_delete_all(users, row) == <<>>

\* db.session.delete(user); db.session.commit(): DELETE ... WHERE email = pk
db_delete(users, row) == SelectSeq(users, LAMBDA r : r.email # row.email)

\* mutant: the filter dropped, the first row of the table is returned
load_user_first_row(users, user_id) ==
    IF users = <<>> THEN <<>> ELSE <<users[1]>>

\* User.query.filter_by(email=user_id).first(): <<row>> or <<>> for None
load_user_from_id(users, user_id) ==
    IF RowsOf(users, user_id) = <<>> THEN <<>> ELSE <<RowsOf(users, user_id)[1]>>

\* ------------------------------------------------------ storage service
UserJson(email, password_hash) ==
    [kind |-> "user", email |-> email, password_hash |-> password_hash]

ErrorJson(title, detail) == [kind |-> "error", title |-> title, detail |-> detail]

\* what a handler hands back: the table afterwards, the response, and whether
\* the User table was queried or written on the way
Result(users, status, body, db) ==
    [users |-> users, status |-> status, body |-> body, db |-> db]

\* @consumes('application/json')
consumes(ctype) == ctype = "application/json"

\* schemas/users.json, "create": both properties are required
schema_missing(body) ==
    IF "email" \notin DOMAIN body THEN <<"email">>
    ELSE IF "password_hash" \notin DOMAIN body THEN <<"password_hash">>
    ELSE <<>>

on_validation_error(users, property) ==
    Result(users, BAD_REQUEST,
           ErrorJson("There was an error validating the given arguments.",
                     <<property, "is a required property">>),
           FALSE)

\* create_user after its existence check: the insert and the response
create_user_commit(users, email, password_hash) ==
    LET ins == db_insert(users, Row(email, password_hash))
    IN  IF ins.ok
        THEN Result(ins.users, CREATED, UserJson(email, password_hash), TRUE)
        ELSE Result(users, INTERNAL_SERVER_ERROR, [kind |-> "exception"], TRUE)

create_user_conflict(users, email) ==
    Result(users, CONFLICT,
           ErrorJson("There is already a user with the given email address.",
                     <<"A user already exists with the email", email>>),
           TRUE)

\* mutant: an existing user is overwritten (merge instead of reject)
create_user_upsert(users, body) ==
    IF load_user_from_id(users, body.email) # <<>>
    THEN Result([i \in 1..Len(users) |->
                    IF users[i].email = body.email
                    THEN Row(body.email, body.password_hash) ELSE users[i]],
                CONFLICT, create_user_conflict(users, body.email).body, TRUE)
    ELSE create_user_commit(users, body.email, body.password_hash)

\* the body of create_user, request.json being valid
create_user(users, body) ==
    IF load_user_from_id(users, body.email) # <<>>
    THEN create_user_conflict(users, body.email)
    ELSE create_user_commit(users, body.email, body.password_hash)

\* @jsonschema.validate('users', 'create') around create_user
validate_create_user(users, body) ==
    IF schema_missing(body) # <<>>
    THEN on_validation_error(users, schema_missing(body)[1])
    ELSE create_user(users, body)

UsersJson(users) ==
    [kind |-> "users",
     list |-> [i \in 1..Len(users) |->
                  [email |-> users[i].email,
                   password_hash |-> users[i].password_hash]]]

unsupported_media_type(users) ==
    Result(users, UNSUPPORTED_MEDIA_TYPE, [kind |-> "exception"], FALSE)

\* mutant: the content type is checked after the handler has run
users_route_late_consumes(users, req) ==
    LET r == IF req.method = "POST"
             THEN validate_create_user(users, req.body)
             ELSE Result(users, OK, UsersJson(users), TRUE)
    IN  IF consumes(req.ctype) THEN r
        ELSE Result(r.users, UNSUPPORTED_MEDIA_TYPE, [kind |-> "exception"], r.db)

\* mutant: GET /users skips the first row
users_route_skip_first(users, req) ==
    IF ~consumes(req.ctype) THEN unsupported_media_type(users)
    ELSE IF req.method = "POST" THEN validate_create_user(users, req.body)
    ELSE Result(users, OK,
                UsersJson(IF users = <<>> THEN users ELSE Tail(users)), TRUE)

\* /users, GET and POST
users_route(users, req) ==
    IF ~consumes(req.ctype) THEN unsupported_media_type(users)
    ELSE IF req.method = "POST" THEN validate_create_user(users, req.body)
    ELSE Result(users, OK, UsersJson(users), TRUE)

\* mutant: a missing user is answered 200 with an empty record
specific_user_route_no_404(users, req) ==
    IF ~consumes(req.ctype) THEN unsupported_media_type(users)
    ELSE LET user == load_user_from_id(users, req.email)
         IN  IF user = <<>>
             THEN Result(users, OK, [kind |-> "empty"], TRUE)
             ELSE Result(IF req.method = "DELETE"
                         THEN db_delete(users, user[1]) ELSE users,
                         OK, UserJson(user[1].email, user[1].password_hash), TRUE)

\* /users/<email>, GET and DELETE
specific_user_route(users, req) ==
    IF ~consumes(req.ctype) THEN unsupported_media_type(users)
    ELSE LET user == load_user_from_id(users, req.email)
         IN  IF user = <<>>
             THEN Result(users, NOT_FOUND,
                         ErrorJson("The requested user does not exist.",
                                   <<"No user exists with the email", req.email>>),
                         TRUE)
             ELSE Result(IF req.method = "DELETE"
                         THEN db_delete(users, user[1]) ELSE users,
                         OK, UserJson(user[1].email, user[1].password_hash), TRUE)

\* ----------------------------------------------- authentication service
\* bcrypt: the digest of a password under a salt (a permutation of the
\* passwords for each salt)
Digest(salt, password) == ((password + salt) % Cardinality(Passwords)) + 1

\* bcrypt.generate_password_hash(password), the random salt made explicit
generate_password_hash(password, salt) ==
    [salt |-> salt, digest |-> Digest(salt, password)]

\* bcrypt.check_password_hash(pw_hash, password): hash the candidate under
\* the stored hash's salt and compare
check_password_hash(pw_hash, password) ==
    generate_password_hash(password, pw_hash.salt) = pw_hash

\* make_secure_token(email, password_hash): a keyed MAC of its arguments
make_secure_token(email, password_hash) ==
    [mac |-> <<email, password_hash.salt, password_hash.digest>>]

\* mutant: the token is made from the password hash alone
get_auth_token_without_email(user) == [mac |-> <<user.password_hash>>]

\* User.get_auth_token
get_auth_token(user) == make_secure_token(user.email, user.password_hash)

\* the rows of the authentication service's table with an email
AuthRowsOf(users, email) == {u \in BagToSet(users) : u.email = email}

\* db.session.add(user); db.session.commit() on the authentication
\* service's table, email being its primary key
auth_db_insert(users, row) ==
    IF AuthRowsOf(users, row.email) # {}
    THEN [ok |-> FALSE, users |-> users]
    ELSE [ok |-> TRUE, users |-> users (+) SetToBag({row})]

\* the first user that User.query.all() yields whose token is auth_token;
\* <<>> for None
load_user_from_token(users, auth_token) ==
    LET m == {u \in BagToSet(users) : get_auth_token(u) = auth_token}
    IN  IF m = {} THEN <<>> ELSE <<CHOOSE u \in m : TRUE>>

\* the authentication service's user_loader:
\* User.query.filter_by(email=user_id).first()
auth_load_user_from_id(users, user_id) ==
    LET m == AuthRowsOf(users, user_id)
    IN  IF m = {} THEN <<>> ELSE <<CHOOSE u \in m : TRUE>>

\* a client's cookies: the session's user_id and the remember_token
Anonymous == [user_id |-> <<>>, remember_token |-> <<>>]

\* Flask-Login's current_user: the session's user_id through the
\* user_loader, else the remember cookie through the token_loader
current_user(users, sess) ==
    IF sess.user_id # <<>> THEN auth_load_user_from_id(users, sess.user_id[1])
    ELSE IF sess.remember_token # <<>>
    THEN load_user_from_token(users, sess.remember_token[1])
    ELSE <<>>

is_authenticated(users, sess) == current_user(users, sess) # <<>>

\* login_user(user, remember=True)
login_user(user) ==
    [user_id |-> <<user.email>>, remember_token |-> <<get_auth_token(user)>>]

\* logout_user()
logout_user(sess) == Anonymous

AuthResult(users, sess, status, body) ==
    [users |-> users, session |-> sess, status |-> status, body |-> body]

\* request.form[key] on a missing key
bad_request_key(users, sess) ==
    AuthResult(users, sess, BAD_REQUEST, [kind |-> "exception"])

\* mutant: a login that fails logs the client out
login_failure_logs_out(users, sess, form) ==
    IF DOMAIN form # {"email", "password"} THEN bad_request_key(users, sess)
    ELSE LET user == auth_load_user_from_id(users, form.email)
         IN  IF user = <<>>
             THEN AuthResult(users, logout_user(sess), NOT_FOUND, [kind |-> "error"])
             ELSE IF ~check_password_hash(user[1].password_hash, form.password)
             THEN AuthResult(users, logout_user(sess), UNAUTHORIZED,
                             [kind |-> "error"])
             ELSE AuthResult(users, login_user(user[1]), OK,
                             [kind |-> "credentials", email |-> form.email,
                              password |-> form.password])

\* mutant: the password is not verified
login_no_password_check(users, sess, form) ==
    IF DOMAIN form # {"email", "password"} THEN bad_request_key(users, sess)
    ELSE LET user == auth_load_user_from_id(users, form.email)
         IN  IF user = <<>>
             THEN AuthResult(users, sess, NOT_FOUND, [kind |-> "error"])
             ELSE AuthResult(users, login_user(user[1]), OK,
                             [kind |-> "credentials", email |-> form.email,
                              password |-> form.password])

\* POST /login
login(users, sess, form) ==
    IF DOMAIN form # {"email", "password"} THEN bad_request_key(users, sess)
    ELSE LET user == auth_load_user_from_id(users, form.email)
         IN  IF user = <<>>
             THEN AuthResult(users, sess, NOT_FOUND, [kind |-> "error"])
             ELSE IF ~check_password_hash(user[1].password_hash, form.password)
             THEN AuthResult(users, sess, UNAUTHORIZED, [kind |-> "error"])
             ELSE AuthResult(users, login_user(user[1]), OK,
                             [kind |-> "credentials", email |-> form.email,
                              password |-> form.password])

\* mutant: the route takes GET as well and answers it with an empty object
login_route_get_allowed(users, sess, req) ==
    IF req.method = "GET" THEN AuthResult(users, sess, OK, [kind |-> "empty"])
    ELSE login(users, sess, req.form)

\* @app.route('/login', methods=['POST']): Flask answers any other method
\* with 405 Method Not Allowed and does not call the view
login_route(users, sess, req) ==
    IF req.method # "POST"
    THEN AuthResult(users, sess, METHOD_NOT_ALLOWED, [kind |-> "exception"])
    ELSE login(users, sess, req.form)

\* POST /logout behind @login_required
logout(users, sess) ==
    IF ~is_authenticated(users, sess)
    THEN AuthResult(users, sess, UNAUTHORIZED, [kind |-> "exception"])
    ELSE AuthResult(users, logout_user(sess), OK, [kind |-> "empty"])

\* signup after its existence check: hash, insert and the response
signup_commit(users, sess, email, password, salt) ==
    LET ins == auth_db_insert(users,
                              Row(email, generate_password_hash(password, salt)))
    IN  IF ins.ok
        THEN AuthResult(ins.users, sess, CREATED,
                        [kind |-> "credentials", email |-> email,
                         password |-> password])
        ELSE AuthResult(users, sess, INTERNAL_SERVER_ERROR, [kind |-> "exception"])

\* mutant: signup logs the new user in
signup_auto_login(users, sess, form, salt) ==
    IF DOMAIN form # {"email", "password"} THEN bad_request_key(users, sess)
    ELSE IF auth_load_user_from_id(users, form.email) # <<>>
    THEN AuthResult(users, sess, CONFLICT, [kind |-> "empty"])
    ELSE LET r == signup_commit(users, sess, form.email, form.password, salt)
         IN  [r EXCEPT !.session =
                 login_user(Row(form.email,
                                generate_password_hash(form.password, salt)))]

\* POST /signup
signup(users, sess, form, salt) ==
    IF DOMAIN form # {"email", "password"} THEN bad_request_key(users, sess)
    ELSE IF auth_load_user_from_id(users, form.email) # <<>>
    THEN AuthResult(users, sess, CONFLICT, [kind |-> "empty"])
    ELSE signup_commit(users, sess, form.email, form.password, salt)

\* ------------------------------------------------------------ the state
Idle == [pc |-> "idle"]

NoRequest == [svc |-> "none"]

Init ==
    /\ program \in Programs
    /\ stUsers = <<>>
    /\ auUsers = EmptyBag
    /\ session = [c \in Clients |-> Anonymous]
    /\ resp = NoRequest
    /\ inflight = [w \in Workers |-> Idle]

\* ---------------------------------- storage service, a request at a time
StorageResponse(req, r) ==
    [svc |-> "storage", req |-> req, status |-> r.status, body |-> r.body,
     db |-> r.db]

PostUsers(ctype, body) ==
    /\ program = "storage"
    /\ LET req == [route |-> "/users", method |-> "POST", ctype |-> ctype,
                   body |-> body]
           r == users_route(stUsers, req)
       IN  /\ stUsers' = r.users
           /\ resp' = StorageResponse(req, r)
           /\ UNCHANGED <<program, auUsers, session, inflight>>

GetUsers(ctype) ==
    /\ program = "storage"
    /\ LET req == [route |-> "/users", method |-> "GET", ctype |-> ctype]
           r == users_route(stUsers, req)
       IN  /\ stUsers' = r.users
           /\ resp' = StorageResponse(req, r)
           /\ UNCHANGED <<program, auUsers, session, inflight>>

GetUser(ctype, email) ==
    /\ program = "storage"
    /\ LET req == [route |-> "/users/<email>", method |-> "GET", ctype |-> ctype,
                   email |-> email]
           r == specific_user_route(stUsers, req)
       IN  /\ stUsers' = r.users
           /\ resp' = StorageResponse(req, r)
           /\ UNCHANGED <<program, auUsers, session, inflight>>

DeleteUser(ctype, email) ==
    /\ program = "storage"
    /\ LET req == [route |-> "/users/<email>", method |-> "DELETE",
                   ctype |-> ctype, email |-> email]
           r == specific_user_route(stUsers, req)
       IN  /\ stUsers' = r.users
           /\ resp' = StorageResponse(req, r)
           /\ UNCHANGED <<program, auUsers, session, inflight>>

NextStorage ==
    \/ \E ctype \in ContentTypes, body \in Bodies : PostUsers(ctype, body)
    \/ \E ctype \in ContentTypes : GetUsers(ctype)
    \/ \E ctype \in ContentTypes, email \in Emails : GetUser(ctype, email)
    \/ \E ctype \in ContentTypes, email \in Emails : DeleteUser(ctype, email)

SpecStorage == Init /\ [][NextStorage]_vars

\* --------------------------- authentication service, a request at a time
AuthResponse(client, req, r) ==
    [svc |-> "authentication", client |-> client, req |-> req,
     status |-> r.status, body |-> r.body]

Login(client, form) ==
    /\ program = "authentication"
    /\ LET req == [route |-> "/login", method |-> "POST", form |-> form]
           r == login_route(auUsers, session[client], req)
       IN  /\ auUsers' = r.users
           /\ session' = [session EXCEPT ![client] = r.session]
           /\ resp' = AuthResponse(client, req, r)
           /\ UNCHANGED <<program, stUsers, inflight>>

\* GET /login, which carries no form
GetLogin(client) ==
    /\ program = "authentication"
    /\ LET req == [route |-> "/login", method |-> "GET", form |-> <<>>]
           r == login_route(auUsers, session[client], req)
       IN  /\ auUsers' = r.users
           /\ session' = [session EXCEPT ![client] = r.session]
           /\ resp' = AuthResponse(client, req, r)
           /\ UNCHANGED <<program, stUsers, inflight>>

Logout(client) ==
    /\ program = "authentication"
    /\ LET req == [route |-> "/logout", method |-> "POST"]
           r == logout(auUsers, session[client])
       IN  /\ auUsers' = r.users
           /\ session' = [session EXCEPT ![client] = r.session]
           /\ resp' = AuthResponse(client, req, r)
           /\ UNCHANGED <<program, stUsers, inflight>>

Signup(client, form, salt) ==
    /\ program = "authentication"
    /\ LET req == [route |-> "/signup", method |-> "POST", form |-> form]
           r == signup(auUsers, session[client], form, salt)
       IN  /\ auUsers' = r.users
           /\ session' = [session EXCEPT ![client] = r.session]
           /\ resp' = AuthResponse(client, req, r)
           /\ UNCHANGED <<program, stUsers, inflight>>

\* bcrypt draws a salt when signup gets to hash the password; in a signup
\* that is answered before that, no salt plays a part
SaltsDrawn(form) ==
    IF DOMAIN form = {"email", "password"}
       /\ auth_load_user_from_id(auUsers, form.email) = <<>>
    THEN Salts
    ELSE {CHOOSE salt \in Salts : TRUE}

NextAuth ==
    \/ \E client \in Clients, form \in Forms : Login(client, form)
    \/ \E client \in Clients : GetLogin(client)
    \/ \E client \in Clients : Logout(client)
    \/ \E client \in Clients, form \in Forms :
           \E salt \in SaltsDrawn(form) : Signup(client, form, salt)

SpecAuth == Init /\ [][NextAuth]_vars

\* The client's browser is closed: Flask's session cookie, which is not
\* permanent, goes; the remember_token cookie that login_user(user,
\* remember=True) set stays, and the next request is identified by it.
CloseBrowser(client) ==
    /\ program = "authentication"
    /\ session[client].user_id # <<>>
    /\ session' = [session EXCEPT ![client].user_id = <<>>]
    /\ UNCHANGED <<program, stUsers, auUsers, resp, inflight>>

\* The service is started again on its default database, sqlite:///:memory:,
\* and db.create_all() makes an empty User table; the cookies the clients
\* hold, signed with the same SECRET_KEY, stay valid.  A user who signs up
\* again is stored with a hash under a freshly drawn salt.
RestartService ==
    /\ program = "authentication"
    /\ auUsers # EmptyBag
    /\ auUsers' = EmptyBag
    /\ UNCHANGED <<program, stUsers, session, resp, inflight>>

\* the client whose cookies the token specification follows
Holder == "c1"

\* the requests of one client, its browser's restarts and the service's
NextToken ==
    \/ \E form \in Forms : Login(Holder, form)
    \/ GetLogin(Holder)
    \/ Logout(Holder)
    \/ \E form \in Forms :
           \E salt \in SaltsDrawn(form) : Signup(Holder, form, salt)
    \/ CloseBrowser(Holder)
    \/ RestartService

SpecToken == Init /\ [][NextToken]_vars

\* ---------------------------- create requests handled by several workers
\* A worker runs create_user or signup in two steps: the existence check
\* (load_user_from_id), then the insert and commit.  rivals are the workers
\* whose request for the same email of the same service had passed its check
\* and not yet committed at some moment when this one was in the same state.
Checked(svc, email, secret, rivals) ==
    [pc |-> "checked", svc |-> svc, email |-> email, secret |-> secret,
     rivals |-> rivals]

Done(svc, email, rivals, status) ==
    [pc |-> "done", svc |-> svc, email |-> email, rivals |-> rivals,
     status |-> status]

RivalsOf(w, svc, email) ==
    {v \in Workers \ {w} :
        /\ inflight[v].pc = "checked"
        /\ inflight[v].svc = svc
        /\ inflight[v].email = email}

\* the check has passed: w joins the requests waiting to commit
PassCheck(w, svc, email, secret) ==
    inflight' = [v \in Workers |->
                    IF v = w
                    THEN Checked(svc, email, secret, RivalsOf(w, svc, email))
                    ELSE IF v \in RivalsOf(w, svc, email)
                    THEN [inflight[v] EXCEPT !.rivals = @ \cup {w}]
                    ELSE inflight[v]]

FailCheck(w, svc, email, secret) ==
    inflight' = [inflight EXCEPT ![w] = Done(svc, email, {}, CONFLICT)]

BeginCreateUser(w, email, password_hash) ==
    /\ program = "storage"
    /\ inflight[w].pc = "idle"
    /\ IF load_user_from_id(stUsers, email) # <<>>
       THEN FailCheck(w, "storage", email, password_hash)
       ELSE PassCheck(w, "storage", email, password_hash)
    /\ UNCHANGED <<program, stUsers, auUsers, session, resp>>

CommitCreateUser(w) ==
    /\ inflight[w].pc = "checked"
    /\ inflight[w].svc = "storage"
    /\ LET r == create_user_commit(stUsers, inflight[w].email, inflight[w].secret)
       IN  /\ stUsers' = r.users
           /\ inflight' = [inflight EXCEPT ![w] =
                  Done(@.svc, @.email, @.rivals, r.status)]
    /\ UNCHANGED <<program, auUsers, session, resp>>

BeginSignup(w, email, password) ==
    /\ program = "authentication"
    /\ inflight[w].pc = "idle"
    /\ IF auth_load_user_from_id(auUsers, email) # <<>>
       THEN FailCheck(w, "authentication", email, password)
       ELSE PassCheck(w, "authentication", email, password)
    /\ UNCHANGED <<program, stUsers, auUsers, session, resp>>

CommitSignup(w, salt) ==
    /\ inflight[w].pc = "checked"
    /\ inflight[w].svc = "authentication"
    /\ LET r == signup_commit(auUsers, Anonymous, inflight[w].email,
                              inflight[w].secret, salt)
       IN  /\ auUsers' = r.users
           /\ inflight' = [inflight EXCEPT ![w] =
                  Done(@.svc, @.email, @.rivals, r.status)]
    /\ UNCHANGED <<program, stUsers, session, resp>>

\* the response is sent and the worker takes the next request
Respond(w) ==
    /\ inflight[w].pc = "done"
    /\ inflight' = [inflight EXCEPT ![w] = Idle]
    /\ UNCHANGED <<program, stUsers, auUsers, session, resp>>

NextRaceCreate ==
    \/ \E w \in Workers, email \in Emails, password_hash \in PasswordHashes :
           BeginCreateUser(w, email, password_hash)
    \/ \E w \in Workers : CommitCreateUser(w)
    \/ \E w \in Workers, email \in Emails, password \in Passwords :
           BeginSignup(w, email, password)
    \/ \E w \in Workers, salt \in Salts : CommitSignup(w, salt)
    \/ \E w \in Workers : Respond(w)

SpecRaceCreate == Init /\ [][NextRaceCreate]_vars

NextRace ==
    \/ NextRaceCreate
    \/ \E email \in Emails : DeleteUser("application/json", email)

SpecRace == Init /\ [][NextRace]_vars

\* ============================================================== claims
UniqueEmails(users) ==
    \A i, j \in 1..Len(users) : users[i].email = users[j].email => i = j

\* the number of rows of the authentication service's table with an email
AuthCount(users, email) ==
    BagCardinality([u \in AuthRowsOf(users, email) |-> CopiesIn(u, users)])

\* a step of the table that leaves the rows of every stored email alone
NoRowForStoredEmail(users, after) ==
    \A e \in Emails :
        HasEmail(users, e) => Len(RowsOf(after, e)) <= Len(RowsOf(users, e))

\* C1: whatever requests are handled, and however the checks and commits of
\* concurrent create and signup requests interleave with each other and with
\* deletes, each table holds at most one row per email after every step, and
\* no step adds a row for an email that has one.
C1_OneRecordPerEmail ==
    [][/\ UniqueEmails(stUsers')
       /\ NoRowForStoredEmail(stUsers, stUsers')
       /\ \A e \in Emails :
              /\ AuthCount(auUsers', e) <= 1
              /\ AuthCount(auUsers, e) > 0 =>
                     AuthCount(auUsers', e) <= AuthCount(auUsers, e)]_vars

\* C1 witness: a create passed its check, another request stored the email
\* first, and the commit was turned down: the email has its one row.
C1_Witness ==
    \E w \in Workers :
        /\ inflight[w].pc = "done"
        /\ inflight[w].status = INTERNAL_SERVER_ERROR
        /\ IF program = "storage"
           THEN Len(RowsOf(stUsers, inflight[w].email)) = 1 /\ Len(stUsers) = 2
           ELSE AuthCount(auUsers, inflight[w].email) = 1
                /\ BagCardinality(auUsers) = 2

\* two requests for one email of one service that had both passed the check
\* before either committed, both answered
RacedPair(w, v) ==
    /\ w # v
    /\ inflight[w].pc = "done" /\ inflight[v].pc = "done"
    /\ v \in inflight[w].rivals /\ w \in inflight[v].rivals
    /\ inflight[w].svc = inflight[v].svc
    /\ inflight[w].email = inflight[v].email

\* C2: of two create requests (POST /users or POST /signup) for the same
\* email, not yet stored, whose checks and commits interleave, exactly one is
\* answered 201 and the other 409.
C2_RaceEndsInConflict ==
    \A w, v \in Workers :
        RacedPair(w, v) =>
            {inflight[w].status, inflight[v].status} = {CREATED, CONFLICT}

\* ----------------------------------------- reading the last response
IsUsersRequest(r, method) ==
    /\ r.svc = "storage"
    /\ r.req.route = "/users"
    /\ r.req.method = method

IsUserRequest(r, method, email) ==
    /\ r.svc = "storage"
    /\ r.req.route = "/users/<email>"
    /\ r.req.method = method
    /\ r.req.email = email

IsJson(r) == r.req.ctype = "application/json"

\* a POST /users that reached create_user: JSON, with both properties
IsCreate(r, email) ==
    /\ IsUsersRequest(r, "POST")
    /\ IsJson(r)
    /\ DOMAIN r.req.body = {"email", "password_hash"}
    /\ r.req.body.email = email

\* C3: a POST /users for an email that has a record is answered 409, whatever
\* password_hash it carries, and leaves the whole table as it was.
C3_CreateExistingConflicts ==
    [][\A e \in Emails :
          IsCreate(resp', e) /\ HasEmail(stUsers, e) =>
              resp'.status = CONFLICT /\ stUsers' = stUsers]_vars

\* C3 witness: a 409 for a request whose password_hash differs from the
\* stored one, with another record in the table.
C3_Witness ==
    \E e \in Emails :
        /\ IsCreate(resp, e)
        /\ resp.status = CONFLICT
        /\ Len(stUsers) = 2
        /\ RowsOf(stUsers, e)[1].password_hash # resp.req.body.password_hash

C5_DeleteStored ==
    [][\A e \in Emails :
          IsUserRequest(resp', "DELETE", e) /\ IsJson(resp') /\ HasEmail(stUsers, e) =>
              /\ resp'.status = OK
              /\ resp'.body = UserJson(e, RowsOf(stUsers, e)[1].password_hash)
              /\ ~HasEmail(stUsers', e)
              /\ Len(stUsers') = Len(stUsers) - 1
              /\ \A o \in Emails \ {e} : RowsOf(stUsers', o) = RowsOf(stUsers, o)
              /\ specific_user_route(stUsers', [resp'.req EXCEPT !.method = "GET"]).status
                     = NOT_FOUND
              /\ LET all == users_route(stUsers', [route |-> "/users", method |-> "GET",
                                                   ctype |-> "application/json"])
                 IN  /\ all.status = OK
                     /\ \A i \in 1..Len(all.body.list) : all.body.list[i].email # e]_vars

\* C5 witness: a DELETE answered 200 that left the other record stored.
C5_Witness ==
    \E e \in Emails :
        /\ IsUserRequest(resp, "DELETE", e)
        /\ resp.status = OK
        /\ Len(stUsers) = 1
        /\ stUsers[1].email # e

\* C6: a GET or DELETE /users/{email} of an email with no record is answered
\* 404 and leaves the table, and so the answer of GET /users, as it was.
C6_AbsentNotFound ==
    [][\A e \in Emails :
          /\ IsUserRequest(resp', "GET", e) \/ IsUserRequest(resp', "DELETE", e)
          /\ IsJson(resp')
          /\ ~HasEmail(stUsers, e)
          => /\ resp'.status = NOT_FOUND
             /\ stUsers' = stUsers
             /\ users_route(stUsers', [route |-> "/users", method |-> "GET",
                                       ctype |-> "application/json"]).body
                  = users_route(stUsers, [route |-> "/users", method |-> "GET",
                                          ctype |-> "application/json"]).body]_vars

\* C6 witness: a DELETE answered 404 while another record is stored.
C6_Witness ==
    \E e \in Emails :
        /\ IsUserRequest(resp, "DELETE", e)
        /\ resp.status = NOT_FOUND
        /\ Len(stUsers) = 1

\* C7: GET /users is answered 200 with one entry per stored row and no other
\* entry, none of them twice: the empty array for the empty table.
C7_ListAll ==
    IsUsersRequest(resp, "GET") /\ IsJson(resp) =>
        /\ resp.status = OK
        /\ resp.body.kind = "users"
        /\ Len(resp.body.list) = Len(stUsers)
        /\ {resp.body.list[i] : i \in 1..Len(resp.body.list)}
              = {[email |-> stUsers[i].email,
                  password_hash |-> stUsers[i].password_hash] : i \in 1..Len(stUsers)}
        /\ \A i, j \in 1..Len(resp.body.list) :
              resp.body.list[i].email = resp.body.list[j].email => i = j
        /\ (stUsers = <<>> => resp.body.list = <<>>)

\* C7 witness: the list answered after two creates of distinct emails.
C7_Witness ==
    /\ IsUsersRequest(resp, "GET")
    /\ resp.status = OK
    /\ Len(resp.body.list) = 2
    /\ resp.body.list[1].email # resp.body.list[2].email

\* C10: a request turned down for its content type (415, on every endpoint) or
\* for a missing property (400, on POST /users) has neither queried nor
\* written the User table, which is as it was.
C10_RejectedBeforeStore ==
    [][resp'.svc = "storage" =>
          /\ ~IsJson(resp') =>
                /\ resp'.status = UNSUPPORTED_MEDIA_TYPE
                /\ ~resp'.db
                /\ stUsers' = stUsers
          /\ /\ IsUsersRequest(resp', "POST") /\ IsJson(resp')
             /\ DOMAIN resp'.req.body # {"email", "password_hash"}
             => /\ resp'.status = BAD_REQUEST
                /\ ~resp'.db
                /\ stUsers' = stUsers]_vars

\* C10 witness: a DELETE with a wrong content type on a stored email, the
\* record still stored.
C10_Witness ==
    \E e \in Emails :
        /\ IsUserRequest(resp, "DELETE", e)
        /\ ~IsJson(resp)
        /\ resp.status = UNSUPPORTED_MEDIA_TYPE
        /\ HasEmail(stUsers, e)

IsAuthRequest(r, route, client) ==
    /\ r.svc = "authentication"
    /\ r.req.route = route
    /\ r.client = client

\* a POST /login or /signup with both form fields
IsFormRequest(r, route) ==
    /\ r.svc = "authentication"
    /\ r.req.route = route
    /\ DOMAIN r.req.form = {"email", "password"}

\* password_hash is a bcrypt hash of password, under whichever salt
IsHashOf(password_hash, password) ==
    \E salt \in Salts : password_hash = generate_password_hash(password, salt)

\* C8: POST /login is answered 404 when no user has the email, 401 when one
\* has but the stored hash is not a hash of the password, and 200 with the
\* email otherwise; after a 200 the client's current user is that user, and
\* after any other answer the client's session is what it was.
C8_Login ==
    [][IsFormRequest(resp', "/login") =>
          LET c == resp'.client
              e == resp'.req.form.email
              p == resp'.req.form.password
              users == AuthRowsOf(auUsers, e)
          IN  /\ users = {} => resp'.status = NOT_FOUND
              /\ \A u \in users :
                     resp'.status = (IF IsHashOf(u.password_hash, p)
                                     THEN OK ELSE UNAUTHORIZED)
              /\ resp'.status = OK =>
                     /\ resp'.body.email = e
                     /\ \E u \in users : current_user(auUsers', session'[c]) = <<u>>
                     /\ session'[c].user_id = <<e>>
              /\ resp'.status # OK => session'[c] = session[c]]_vars

\* C8 witness: a 401 for a registered email, the client still logged in as
\* another user.
C8_Witness ==
    /\ IsFormRequest(resp, "/login")
    /\ resp.status = UNAUTHORIZED
    /\ AuthRowsOf(auUsers, resp.req.form.email) # {}
    /\ session[resp.client].user_id # <<>>
    /\ session[resp.client].user_id # <<resp.req.form.email>>

\* C9: a request changes no session but its own client's; a signup changes
\* none and logs nobody in (Anonymous stays Anonymous); a session becomes
\* Authenticated by a login answered 200, and a login answered otherwise
\* leaves it as it is; a logout from Authenticated is answered 200, one from
\* Anonymous 401, and both leave the session Anonymous.
C9_SessionStates ==
    [][resp'.svc = "authentication" =>
          LET c == resp'.client
              route == resp'.req.route
          IN  /\ \A o \in Clients \ {c} : session'[o] = session[o]
              /\ route = "/signup" => session'[c] = session[c]
              /\ auUsers' # auUsers =>
                     \A o \in Clients :
                         session'[o] = session[o] =>
                             is_authenticated(auUsers', session'[o])
                                 = is_authenticated(auUsers, session[o])
              /\ route = "/login" =>
                     IF resp'.status = OK
                     THEN is_authenticated(auUsers', session'[c])
                     ELSE session'[c] = session[c]
              /\ route = "/logout" =>
                     /\ resp'.status = (IF is_authenticated(auUsers, session[c])
                                        THEN OK ELSE UNAUTHORIZED)
                     /\ session'[c] = Anonymous
                     /\ ~is_authenticated(auUsers', session'[c])]_vars

\* C9 witness: a signup answered 201 that left its client Anonymous while the
\* other client is logged in.
C9_Witness ==
    \E c \in Clients, o \in Clients :
        /\ IsAuthRequest(resp, "/signup", c)
        /\ resp.status = CREATED
        /\ ~is_authenticated(auUsers, session[c])
        /\ o # c
        /\ is_authenticated(auUsers, session[o])

\* the hashes bcrypt can produce
BcryptHashes ==
    {generate_password_hash(p, salt) : p \in Passwords, salt \in Salts}

\* C11: the token of a user is made from the user's email and password_hash
\* and nothing else of the state, and load_user_from_token resolves a token
\* issued for (email, password_hash) to no user unless the table now stores
\* exactly that row: a token issued for an email under an earlier
\* password_hash resolves to no user, and no token resolves to a user with
\* another email.  A request identified by the remember_token alone is
\* authenticated exactly when the token resolves.
C11_TokenOfStoredPair ==
    /\ \A e \in Emails, h \in BcryptHashes :
           LET t == get_auth_token(Row(e, h))
               found == load_user_from_token(auUsers, t)
           IN  /\ found # <<>> =>
                      /\ found[1] = Row(e, h)
                      /\ BagIn(found[1], auUsers)
               /\ BagIn(Row(e, h), auUsers) => found = <<Row(e, h)>>
    /\ \A c \in Clients :
           (session[c].user_id = <<>> /\ session[c].remember_token # <<>>) =>
               (is_authenticated(auUsers, session[c])
                    <=> \E u \in BagToSet(auUsers) :
                            get_auth_token(u) = session[c].remember_token[1])

\* C11 witness: a client identified by its remember_token alone, issued for
\* an email whose stored password_hash has changed since, was refused by
\* /logout.
C11_Witness ==
    \E c \in Clients, e \in Emails, h \in BcryptHashes :
        /\ session[c] = [user_id |-> <<>>,
                         remember_token |-> <<get_auth_token(Row(e, h))>>]
        /\ AuthRowsOf(auUsers, e) # {}
        /\ ~BagIn(Row(e, h), auUsers)
        /\ IsAuthRequest(resp, "/logout", c)
        /\ resp.status = UNAUTHORIZED

IsGetLogin(r) ==
    /\ r.svc = "authentication"
    /\ r.req.route = "/login"
    /\ r.req.method = "GET"

\* C12 as stated: GET /login is answered 200 with an empty JSON object, in
\* any session state, and changes neither the session nor the user table.
C12_GetLoginOk ==
    [][IsGetLogin(resp') =>
          /\ resp'.status = OK
          /\ resp'.body = [kind |-> "empty"]
          /\ session' = session
          /\ auUsers' = auUsers]_vars

\* C12 amended: GET /login is answered 405 Method Not Allowed, in any session
\* state, and changes neither the session nor the user table; the client is
\* authenticated afterwards exactly when it was before.
C12_GetLoginNotAllowed ==
    [][IsGetLogin(resp') =>
          /\ resp'.status = METHOD_NOT_ALLOWED
          /\ session' = session
          /\ auUsers' = auUsers
          /\ is_authenticated(auUsers', session'[resp'.client])
                 = is_authenticated(auUsers, session[resp'.client])]_vars

\* C12 witness: a GET /login from a client that is logged in, with another
\* client anonymous and a user stored.
C12_Witness ==
    \E o \in Clients :
        /\ IsGetLogin(resp)
        /\ is_authenticated(auUsers, session[resp.client])
        /\ o # resp.client
        /\ ~is_authenticated(auUsers, session[o])
        /\ auUsers # EmptyBag

\* C13: a request to the authentication service that is answered with
\* anything but 200 or 201 (a login answered 404 or 401, a signup answered
\* 409, and the 400, 401 and 405 of the other refusals) changes neither the
\* user table nor any session, so the client's current user is who it was;
\* and no request removes a row of the user table or changes the
\* password_hash stored for an email.
C13_RejectedChangesNothing ==
    [][resp'.svc = "authentication" =>
          /\ resp'.status \notin {OK, CREATED} =>
                 /\ auUsers' = auUsers
                 /\ session' = session
                 /\ current_user(auUsers', session'[resp'.client])
                        = current_user(auUsers, session[resp'.client])
          /\ \A u \in BagToSet(auUsers) : CopiesIn(u, auUsers') = CopiesIn(u, auUsers)
          /\ \A e \in Emails :
                 AuthRowsOf(auUsers, e) # {} =>
                     AuthRowsOf(auUsers', e) = AuthRowsOf(auUsers, e)]_vars

\* C13 witness: a client whose current user is A was refused (401) a login
\* as B, both stored, and its current user is still A.
C13_Witness ==
    \E a \in BagToSet(auUsers), b \in BagToSet(auUsers) :
        /\ a.email # b.email
        /\ IsFormRequest(resp, "/login")
        /\ resp.req.form.email = b.email
        /\ resp.status = UNAUTHORIZED
        /\ current_user(auUsers, session[resp.client]) = <<a>>

====
